---------------------------- MODULE Spec2Model ----------------------------
(***************************************************************************)
(* Model of the data-cleaning agent: the LangGraph pipeline of             *)
(* agent/graph.py, the stage functions of agent/nodes.py and the run       *)
(* handler of app.py.                                                      *)
(*                                                                         *)
(* Texts (oracle responses, generated code, tracebacks) are sequences of   *)
(* tokens.  "bt" is one backtick character, "python" the literal word,     *)
(* "nl" a newline, "sp" any other whitespace character; every other token  *)
(* is one statement of generated code.                                     *)
(***************************************************************************)
EXTENDS Integers, Sequences, FiniteSets, TLC

(***************************************************************************)
(* Bounds of the model.                                                    *)
(***************************************************************************)
NumSessions == 2
MaxRuns == 2
MaxConcRuns == 1
MaxTextLen == 4
MaxChunks == 6

(***************************************************************************)
(* Program constants.                                                      *)
(***************************************************************************)
MAX_RETRIES == 3
SliderMin == 1
SliderMax == 5

Sessions == 1..NumSessions

None == <<>>
Some(x) == <<x>>

Min(S) == CHOOSE x \in S : \A y \in S : x <= y
Max(S) == CHOOSE x \in S : \A y \in S : x >= y

(***************************************************************************)
(* Text helpers: str.strip() and the two regular expressions of            *)
(* _extract_code.                                                          *)
(***************************************************************************)
IsSpace(c) == c \in {"nl", "sp"}

RECURSIVE Strip(_)
Strip(t) ==
    IF t = <<>> THEN <<>>
    ELSE IF IsSpace(Head(t)) THEN Strip(Tail(t))
    ELSE IF IsSpace(t[Len(t)]) THEN Strip(SubSeq(t, 1, Len(t) - 1))
    ELSE t

\* the three backticks of a fence start at position i
FenceAt(t, i) ==
    /\ i >= 1
    /\ i + 2 <= Len(t)
    /\ t[i] = "bt" /\ t[i + 1] = "bt" /\ t[i + 2] = "bt"

\* position after ```(?:python)? matched at i
AfterTag(t, i) ==
    IF i + 3 <= Len(t) /\ t[i + 3] = "python" THEN i + 4 ELSE i + 3

\* first position at or after j that holds no whitespace (Len(t)+1 at the end)
SpaceEnd(t, j) ==
    Min({k \in j..(Len(t) + 1) : k = Len(t) + 1 \/ ~IsSpace(t[k])})

\* the newlines that \s*\n can end on, after the tag of the fence at i
TagNewlines(t, i) ==
    {n \in AfterTag(t, i)..(SpaceEnd(t, AfterTag(t, i)) - 1) : t[n] = "nl"}

\* the closing fences available to (.*?)``` when the group starts at p
ClosingFences(t, p) == {m \in p..Len(t) : FenceAt(t, m)}

\* positions where ```(?:python)?\s*\n(.*?)``` matches (re.DOTALL)
MatchStarts(t) ==
    {i \in 1..Len(t) :
        /\ FenceAt(t, i)
        /\ TagNewlines(t, i) # {}
        /\ ClosingFences(t, Max(TagNewlines(t, i)) + 1) # {}}

\* match.group(1) of re.search: leftmost match, greedy \s*, lazy group
Group1(t) ==
    LET i == Min(MatchStarts(t))
        n == Max(TagNewlines(t, i))
        m == Min(ClosingFences(t, n + 1))
    IN  SubSeq(t, n + 1, m - 1)

\* re.sub(r"```(?:python)?", "", text), scanning from position i
RECURSIVE RemoveFences(_, _)
RemoveFences(t, i) ==
    IF i > Len(t) THEN <<>>
    ELSE IF FenceAt(t, i) THEN RemoveFences(t, AfterTag(t, i))
    ELSE <<t[i]>> \o RemoveFences(t, i + 1)

\* a variant whose fallback strips the text without removing the fences
_extract_code_KeepFences(text) ==
    IF MatchStarts(text) # {}
    THEN Strip(Group1(text))
    ELSE Strip(text)

_extract_code(text) ==
    IF MatchStarts(text) # {}
    THEN Strip(Group1(text))
    ELSE Strip(RemoveFences(text, 1))


(***************************************************************************)
(* The generated code as Python sees it.  exec(code, namespace) compiles   *)
(* the whole text first and then runs its statements in order; a globals   *)
(* dictionary without "__builtins__" gets the builtins module added by     *)
(* exec itself.                                                            *)
(***************************************************************************)
RAW_CSV == "in.csv"
OUTPUT_CSV == "out.csv"

\* the bindings execute_code injects
Namespace == {"pd", "input_csv_path", "output_csv_path"}

\* the names exec makes reachable through the builtins it adds
Builtins == {"open", "__import__"}

\* the names a statement resolves when it runs
Needs(tok) ==
    CASE tok = "to_csv"   -> {"pd", "output_csv_path"}
      [] tok = "read_csv" -> {"pd", "input_csv_path"}
      [] tok = "open"     -> {"open"}
      [] tok = "import"   -> {"__import__"}
      [] tok = "undef"    -> {"undefined_name"}
      [] tok = "python"   -> {"python"}
      [] OTHER            -> {}

\* the names visible to the code run by exec(state.generated_code, namespace)
ExecGlobals == Namespace \cup Builtins

\* what one statement does: "ok", or the class of the exception it raises
StmtResult(tok) ==
    IF ~(Needs(tok) \subseteq ExecGlobals) THEN "NameError"
    ELSE IF tok = "raise" THEN "ValueError"
    ELSE IF tok = "exit" THEN "SystemExit"
    ELSE "ok"

\* the classes caught by "except Exception"
IsException(exc) == exc \in {"SyntaxError", "NameError", "ValueError"}

Statements(code) == SelectSeq(code, LAMBDA c : ~IsSpace(c))

\* runs stmts[i..]; written: the destination file has been written so far
RECURSIVE RunStmts(_, _, _)
RunStmts(stmts, i, written) ==
    IF i > Len(stmts) THEN [exc |-> "none", at |-> "end", written |-> written]
    ELSE IF StmtResult(stmts[i]) # "ok"
         THEN [exc |-> StmtResult(stmts[i]), at |-> stmts[i], written |-> written]
         ELSE RunStmts(stmts, i + 1, written \/ stmts[i] = "to_csv")

\* exec(code, namespace): a backtick is no Python syntax, so compile() fails
\* before any statement runs
Exec(code) ==
    IF \E k \in 1..Len(code) : code[k] = "bt"
    THEN [exc |-> "SyntaxError", at |-> "bt", written |-> FALSE]
    ELSE RunStmts(Statements(code), 1, FALSE)

\* traceback.format_exc(): exception class and the statement that raised
Traceback(exc, at) == <<"Traceback", exc, at>>

\* a variant that reports the destination path also for a failed attempt
execute_code_PathOnFailure(generated_code, input_csv_path, output_csv_path) ==
    LET r == Exec(generated_code)
    IN  IF r.exc = "none"
        THEN [raised |-> "none", error |-> None,
              cleaned_csv_path |-> Some(output_csv_path), written |-> r.written,
              printed |-> {<<"executed", Some(output_csv_path)>>}]
        ELSE IF IsException(r.exc)
        THEN [raised |-> "none", error |-> Some(Traceback(r.exc, r.at)),
              cleaned_csv_path |-> Some(output_csv_path), written |-> r.written,
              printed |-> {<<"execution_error", Traceback(r.exc, r.at)>>}]
        ELSE [raised |-> r.exc, error |-> None,
              cleaned_csv_path |-> None, written |-> r.written,
              printed |-> {}]

\* a variant that reports the source path as the cleaned file
execute_code_WrongPath(generated_code, input_csv_path, output_csv_path) ==
    LET r == Exec(generated_code)
    IN  IF r.exc = "none"
        THEN [raised |-> "none", error |-> None,
              cleaned_csv_path |-> Some(input_csv_path), written |-> r.written,
              printed |-> {<<"executed", Some(output_csv_path)>>}]
        ELSE IF IsException(r.exc)
        THEN [raised |-> "none", error |-> Some(Traceback(r.exc, r.at)),
              cleaned_csv_path |-> None, written |-> r.written,
              printed |-> {<<"execution_error", Traceback(r.exc, r.at)>>}]
        ELSE [raised |-> r.exc, error |-> None,
              cleaned_csv_path |-> None, written |-> r.written,
              printed |-> {}]

\* a variant that returns a failure without printing it
execute_code_Silent(generated_code, input_csv_path, output_csv_path) ==
    LET r == Exec(generated_code)
    IN  IF r.exc = "none"
        THEN [raised |-> "none", error |-> None,
              cleaned_csv_path |-> Some(output_csv_path), written |-> r.written,
              printed |-> {<<"executed", Some(output_csv_path)>>}]
        ELSE IF IsException(r.exc)
        THEN [raised |-> "none", error |-> Some(Traceback(r.exc, r.at)),
              cleaned_csv_path |-> None, written |-> r.written,
              printed |-> {}]
        ELSE [raised |-> r.exc, error |-> None,
              cleaned_csv_path |-> None, written |-> r.written,
              printed |-> {}]

\* execute_code: raised is the class of an exception that leaves the
\* function ("none" when it returns)
execute_code(generated_code, input_csv_path, output_csv_path) ==
    LET r == Exec(generated_code)
    IN  IF r.exc = "none"
        THEN [raised |-> "none", error |-> None,
              cleaned_csv_path |-> Some(output_csv_path), written |-> r.written,
              printed |-> {<<"executed", Some(output_csv_path)>>}]
        ELSE IF IsException(r.exc)
        THEN [raised |-> "none", error |-> Some(Traceback(r.exc, r.at)),
              cleaned_csv_path |-> None, written |-> r.written,
              printed |-> {<<"execution_error", Traceback(r.exc, r.at)>>}]
        ELSE [raised |-> r.exc, error |-> None,
              cleaned_csv_path |-> None, written |-> r.written,
              printed |-> {}]

(***************************************************************************)
(* Oracle responses (call_llm returns one of these, or raises).            *)
(***************************************************************************)
Fence == <<"bt", "bt", "bt">>
Fenced(code) == Fence \o <<"python", "nl">> \o code \o <<"nl">> \o Fence

CodeResponses ==
    { Fenced(<<"read_csv", "nl", "to_csv">>),
      Fenced(<<"raise">>),
      Fenced(<<"undef", "nl", "to_csv">>),
      Fenced(<<"read_csv">>),
      Fenced(<<"exit">>),
      <<"import", "nl", "open", "nl", "to_csv">>,
      Fence \o <<"nl">> \o Fence }

PlanResponses == { <<"sp", "plan_a", "nl">>, <<"plan_b">> }

FeatureResponses == { <<"features", "nl">> }

\* what the oracle may answer to plan_cleaning and to generate_code/debug_code
SeqOracle == [plan |-> PlanResponses, code |-> CodeResponses]

ConcOracle ==
    [plan |-> { <<"plan_b">> },
     code |-> { Fenced(<<"read_csv", "nl", "to_csv">>), Fenced(<<"raise">>) }]

(***************************************************************************)
(* State.                                                                  *)
(***************************************************************************)
VARIABLES
    retry_count,        \* nodes.retry_count (module global)
    nodes_MAX_RETRIES,  \* nodes.MAX_RETRIES (module global)
    output_exists,      \* the destination file exists on disk
    pc,                 \* per session: the node to run next, or how the run ended
    state,              \* per session: the GraphState of the current run
    max_retries,        \* per session: the slider value of app.py
    runs,               \* per session: runs started so far
    exception,          \* per session: the stage whose exception ended the run
    execs,              \* per session: execute_code invocations of the run
    debugs,             \* per session: debug_code invocations of the run
    attempt,            \* per session: code and result of the last execute_code
    prevEnd,            \* per session: how the previous run ended
    stdout,             \* per session: what the run has printed
    exit_code,          \* per session: the exit status of main.py, once it ended
    text,               \* the text handed to _extract_code on its own
    extracted,          \* what _extract_code returned for text, bare and wrapped
    events,             \* per session: the node updates graph.stream has yielded
    prompt              \* per session: code and traceback of the last debug_code prompt

vars == <<retry_count, nodes_MAX_RETRIES, output_exists, pc, state, max_retries,
          runs, exception, execs, debugs, attempt, prevEnd, stdout, exit_code,
          text, extracted, events, prompt>>

Running == {"inspect", "plan", "generate_code", "execute_code", "route",
            "debug", "feature_eng"}
Terminal == {"Done", "Failed", "Aborted"}

\* the dict passed to graph.stream / graph.invoke
InitialState ==
    [raw_csv_path |-> RAW_CSV,
     output_csv_path |-> OUTPUT_CSV,
     data_profile |-> "empty",
     cleaning_plan |-> <<>>,
     generated_code |-> <<>>,
     error |-> None,
     cleaned_csv_path |-> None,
     feature_engineering_plan |-> <<>>]

\* no exception has left the pipeline: <<stage, failing call>>
NoException == <<"none", "none">>

NoAttempt == [code |-> <<>>, result |-> "none", diag |-> None]

\* debug_code has not built a prompt in this run
NoPrompt == [code |-> <<>>, error |-> None]

\* _extract_code has not been called on text yet
NoExtraction == [bare |-> None, once |-> None, twice |-> None, again |-> None]

Init ==
    /\ retry_count = 0
    /\ nodes_MAX_RETRIES = MAX_RETRIES
    /\ output_exists \in BOOLEAN
    /\ pc = [s \in Sessions |-> "idle"]
    /\ state = [s \in Sessions |-> InitialState]
    /\ max_retries = [s \in Sessions |-> MAX_RETRIES]
    /\ runs = [s \in Sessions |-> 0]
    /\ exception = [s \in Sessions |-> NoException]
    /\ execs = [s \in Sessions |-> 0]
    /\ debugs = [s \in Sessions |-> 0]
    /\ attempt = [s \in Sessions |-> NoAttempt]
    /\ prevEnd = [s \in Sessions |-> "none"]
    /\ stdout = [s \in Sessions |-> {}]
    /\ exit_code = [s \in Sessions |-> None]
    /\ text = <<>>
    /\ extracted = NoExtraction
    /\ events = [s \in Sessions |-> <<>>]
    /\ prompt = [s \in Sessions |-> NoPrompt]

\* the name MAX_RETRIES in graph.py: bound by "from .nodes import MAX_RETRIES"
\* when graph.py is first imported, before app.py assigns nodes.MAX_RETRIES
graph_MAX_RETRIES == MAX_RETRIES

\* a variant that leaves the counter as the previous run left it
reset_retries_Keep == retry_count

reset_retries == 0

\* a variant in which a failed oracle call is handed to the repair stage
Abort_ToRepair(s, stage, call) ==
    /\ pc' = [pc EXCEPT ![s] = IF call = "call_llm" THEN "debug" ELSE "Aborted"]
    /\ exception' = [exception EXCEPT ![s] = <<stage, call>>]

\* a stage raised: the exception leaves graph.stream and the run is over
Abort(s, stage, call) ==
    /\ pc' = [pc EXCEPT ![s] = "Aborted"]
    /\ exception' = [exception EXCEPT ![s] = <<stage, call>>]

(***************************************************************************)
(* The run handler of app.py: the slider value is assigned to              *)
(* nodes.MAX_RETRIES, build_graph() resets the counter, graph.stream()     *)
(* starts on the initial dict.                                             *)
(***************************************************************************)
build_graph ==
    retry_count' = reset_retries

StartRun(s, limit) ==
    /\ pc[s] \in {"idle"} \cup Terminal
    /\ runs[s] < limit
    /\ \E n \in SliderMin..SliderMax :
          /\ max_retries' = [max_retries EXCEPT ![s] = n]
          /\ nodes_MAX_RETRIES' = n
    /\ build_graph
    /\ state' = [state EXCEPT ![s] = InitialState]
    /\ pc' = [pc EXCEPT ![s] = "inspect"]
    /\ runs' = [runs EXCEPT ![s] = @ + 1]
    /\ exception' = [exception EXCEPT ![s] = NoException]
    /\ execs' = [execs EXCEPT ![s] = 0]
    /\ debugs' = [debugs EXCEPT ![s] = 0]
    /\ attempt' = [attempt EXCEPT ![s] = NoAttempt]
    /\ prevEnd' = [prevEnd EXCEPT ![s] = pc[s]]
    /\ stdout' = [stdout EXCEPT ![s] = {}]
    /\ events' = [events EXCEPT ![s] = <<>>]
    /\ prompt' = [prompt EXCEPT ![s] = NoPrompt]
    /\ UNCHANGED <<output_exists, exit_code, text, extracted>>

(***************************************************************************)
(* The nodes of the graph.                                                 *)
(***************************************************************************)
\* node_inspect / inspect_dataset: pd.read_csv of the source may raise
node_inspect(s) ==
    /\ pc[s] = "inspect"
    /\ \/ /\ state' = [state EXCEPT ![s].data_profile = "profile"]
          /\ pc' = [pc EXCEPT ![s] = "plan"]
          /\ UNCHANGED exception
          /\ events' = [events EXCEPT ![s] = Append(@, <<"inspect", None>>)]
       \/ /\ Abort(s, "inspect", "read_csv")
          /\ UNCHANGED <<state, events>>
    /\ UNCHANGED <<retry_count, nodes_MAX_RETRIES, output_exists, max_retries,
                   runs, execs, debugs, attempt, prevEnd, stdout, exit_code,
                   text, extracted, prompt>>

\* node_plan / plan_cleaning: call_llm, response.strip()
node_plan(s, responses) ==
    /\ pc[s] = "plan"
    /\ \/ \E response \in responses :
             /\ state' = [state EXCEPT ![s].cleaning_plan = Strip(response)]
             /\ pc' = [pc EXCEPT ![s] = "generate_code"]
             /\ UNCHANGED exception
             /\ events' = [events EXCEPT ![s] = Append(@, <<"plan", None>>)]
       \/ /\ Abort(s, "plan", "call_llm")
          /\ UNCHANGED <<state, events>>
    /\ UNCHANGED <<retry_count, nodes_MAX_RETRIES, output_exists, max_retries,
                   runs, execs, debugs, attempt, prevEnd, stdout, exit_code,
                   text, extracted, prompt>>

\* node_generate_code / generate_code: call_llm, _extract_code
node_generate_code(s, responses) ==
    /\ pc[s] = "generate_code"
    /\ \/ \E response \in responses :
             /\ state' = [state EXCEPT ![s].generated_code = _extract_code(response)]
             /\ pc' = [pc EXCEPT ![s] = "execute_code"]
             /\ UNCHANGED exception
             /\ events' = [events EXCEPT ![s] = Append(@, <<"generate_code", None>>)]
       \/ /\ Abort(s, "generate_code", "call_llm")
          /\ UNCHANGED <<state, events>>
    /\ UNCHANGED <<retry_count, nodes_MAX_RETRIES, output_exists, max_retries,
                   runs, execs, debugs, attempt, prevEnd, stdout, exit_code,
                   text, extracted, prompt>>

\* what Python's exec did with the code of an attempt
AttemptOf(code) ==
    LET r == Exec(code)
    IN  [code |-> code,
         result |-> IF r.exc = "none" THEN "Success" ELSE "Raised",
         diag |-> IF r.exc = "none" THEN None ELSE Some(Traceback(r.exc, r.at))]

\* node_execute_code: runs execute_code and writes error and cleaned_csv_path
node_execute_code(s) ==
    /\ pc[s] = "execute_code"
    /\ LET result == execute_code(state[s].generated_code,
                                  state[s].raw_csv_path,
                                  state[s].output_csv_path)
       IN  /\ output_exists' = (output_exists \/ result.written)
           /\ stdout' = [stdout EXCEPT ![s] = @ \cup result.printed]
           /\ IF result.raised = "none"
              THEN /\ state' = [state EXCEPT
                                  ![s].error = result.error,
                                  ![s].cleaned_csv_path = result.cleaned_csv_path]
                   /\ pc' = [pc EXCEPT ![s] = "route"]
                   /\ UNCHANGED exception
                   /\ events' = [events EXCEPT ![s] = Append(@, <<"execute_code", result.error>>)]
              ELSE /\ Abort(s, "execute_code", "exec")
                   /\ UNCHANGED <<state, events>>
    /\ execs' = [execs EXCEPT ![s] = @ + 1]
    /\ attempt' = [attempt EXCEPT ![s] = AttemptOf(state[s].generated_code)]
    /\ UNCHANGED <<retry_count, nodes_MAX_RETRIES, max_retries, runs, debugs,
                   prevEnd, exit_code, text, extracted, prompt>>

\* a variant that retries every failure
route_after_execute_NoBound(st, count) ==
    IF st.error = None THEN "feature_eng" ELSE "debug"

\* a variant that allows one retry more
route_after_execute_OffByOne(st, count) ==
    IF st.error = None THEN "feature_eng"
    ELSE IF count <= graph_MAX_RETRIES THEN "debug"
    ELSE "END"

\* a variant that sends a failure back to code generation
route_after_execute_Regenerate(st, count) ==
    IF st.error = None THEN "feature_eng"
    ELSE IF count < graph_MAX_RETRIES THEN "generate_code"
    ELSE "END"

\* a variant that looks at the counter before it looks at the error
route_after_execute_DebugOnSuccess(st, count) ==
    IF count < graph_MAX_RETRIES THEN "debug"
    ELSE IF st.error = None THEN "feature_eng"
    ELSE "END"

\* route_after_execute: reads nodes.retry_count and graph.py's MAX_RETRIES
route_after_execute(st, count) ==
    IF st.error = None THEN "feature_eng"
    ELSE IF count < graph_MAX_RETRIES THEN "debug"
    ELSE "END"

\* the conditional edge after execute_code
route(s) ==
    /\ pc[s] = "route"
    /\ LET to == route_after_execute(state[s], retry_count)
       IN  /\ pc' = [pc EXCEPT ![s] = IF to = "END" THEN "Failed" ELSE to]
           /\ stdout' = [stdout EXCEPT ![s] =
                            IF to = "END" THEN @ \cup {<<"max_retries_reached", <<>>>>}
                            ELSE @]
    /\ UNCHANGED <<retry_count, nodes_MAX_RETRIES, output_exists, state,
                   max_retries, runs, exception, execs, debugs, attempt, prevEnd,
                   exit_code, text, extracted, events, prompt>>

\* a variant that puts the plan where the failing code belongs
debug_prompt_Plan(st) == [code |-> st.cleaning_plan, error |-> st.error]

\* the code and the traceback debug_code puts into its prompt
debug_prompt(st) == [code |-> st.generated_code, error |-> st.error]

\* a variant that counts one repair as two
debug_code_count_Twice(count) == count + 2

\* debug_code's first statements: global retry_count; retry_count += 1
debug_code_count(count) == count + 1

\* a variant of node_debug that also clears the plan
node_debug_Replan(s, responses) ==
    /\ pc[s] = "debug"
    /\ retry_count' = debug_code_count(retry_count)
    /\ debugs' = [debugs EXCEPT ![s] = @ + 1]
    /\ prompt' = [prompt EXCEPT ![s] = debug_prompt(state[s])]
    /\ stdout' = [stdout EXCEPT ![s] =
                     @ \cup {<<"debug_attempt", <<debug_code_count(retry_count)>>>>}]
    /\ \/ \E response \in responses :
             /\ state' = [state EXCEPT ![s].generated_code = _extract_code(response),
                                       ![s].cleaning_plan = <<>>]
             /\ pc' = [pc EXCEPT ![s] = "execute_code"]
             /\ UNCHANGED exception
             /\ events' = [events EXCEPT ![s] = Append(@, <<"debug", None>>)]
       \/ /\ Abort(s, "debug", "call_llm")
          /\ UNCHANGED <<state, events>>
    /\ UNCHANGED <<nodes_MAX_RETRIES, output_exists, max_retries, runs, execs,
                   attempt, prevEnd, exit_code, text, extracted>>

\* a variant of node_debug that calls the oracle before it counts
node_debug_CallFirst(s, responses) ==
    /\ pc[s] = "debug"
    /\ debugs' = [debugs EXCEPT ![s] = @ + 1]
    /\ prompt' = [prompt EXCEPT ![s] = debug_prompt(state[s])]
    /\ \/ \E response \in responses :
             /\ retry_count' = debug_code_count(retry_count)
             /\ stdout' = [stdout EXCEPT ![s] =
                              @ \cup {<<"debug_attempt", <<debug_code_count(retry_count)>>>>}]
             /\ state' = [state EXCEPT ![s].generated_code = _extract_code(response)]
             /\ pc' = [pc EXCEPT ![s] = "execute_code"]
             /\ UNCHANGED exception
             /\ events' = [events EXCEPT ![s] = Append(@, <<"debug", None>>)]
       \/ /\ Abort(s, "debug", "call_llm")
          /\ UNCHANGED <<state, events, retry_count, stdout>>
    /\ UNCHANGED <<nodes_MAX_RETRIES, output_exists, max_retries, runs, execs,
                   attempt, prevEnd, exit_code, text, extracted>>

\* node_debug / debug_code: increments the counter, then call_llm, _extract_code
node_debug(s, responses) ==
    /\ pc[s] = "debug"
    /\ retry_count' = debug_code_count(retry_count)
    /\ debugs' = [debugs EXCEPT ![s] = @ + 1]
    /\ prompt' = [prompt EXCEPT ![s] = debug_prompt(state[s])]
    /\ stdout' = [stdout EXCEPT ![s] =
                     @ \cup {<<"debug_attempt", <<debug_code_count(retry_count)>>>>}]
    /\ \/ \E response \in responses :
             /\ state' = [state EXCEPT ![s].generated_code = _extract_code(response)]
             /\ pc' = [pc EXCEPT ![s] = "execute_code"]
             /\ UNCHANGED exception
             /\ events' = [events EXCEPT ![s] = Append(@, <<"debug", None>>)]
       \/ /\ Abort(s, "debug", "call_llm")
          /\ UNCHANGED <<state, events>>
    /\ UNCHANGED <<nodes_MAX_RETRIES, output_exists, max_retries, runs, execs,
                   attempt, prevEnd, exit_code, text, extracted>>

\* pd.read_csv(path) finds a file: the source always, the destination when
\* it has been written; a path of None raises
FileExists(path, exists) ==
    \/ path = Some(RAW_CSV)
    \/ path = Some(OUTPUT_CSV) /\ exists

\* a variant that goes on without the cleaned file
feature_engineering_plan_NoRead(cleaned_csv_path, exists) ==
    {[raised |-> "none", feature_engineering_plan |-> Strip(r)] :
        r \in FeatureResponses}
    \cup {[raised |-> "call_llm", feature_engineering_plan |-> <<>>]}

\* feature_engineering_plan: pd.read_csv(state.cleaned_csv_path), then
\* call_llm and response.strip(); raised names the call that raised
feature_engineering_plan(cleaned_csv_path, exists) ==
    IF FileExists(cleaned_csv_path, exists)
    THEN {[raised |-> "none", feature_engineering_plan |-> Strip(r)] :
             r \in FeatureResponses}
         \cup {[raised |-> "call_llm", feature_engineering_plan |-> <<>>]}
    ELSE {[raised |-> "read_csv", feature_engineering_plan |-> <<>>]}

\* node_feature_engineering, then the edge feature_eng -> END
node_feature_engineering(s) ==
    /\ pc[s] = "feature_eng"
    /\ \E result \in feature_engineering_plan(state[s].cleaned_csv_path,
                                              output_exists) :
          IF result.raised # "none"
          THEN /\ Abort(s, "feature_eng", result.raised)
               /\ UNCHANGED <<state, stdout, events>>
          ELSE /\ state' = [state EXCEPT ![s].feature_engineering_plan =
                                            result.feature_engineering_plan]
               /\ pc' = [pc EXCEPT ![s] = "Done"]
               /\ stdout' = [stdout EXCEPT ![s] =
                                @ \cup {<<"feature_plan_ready", <<>>>>}]
               /\ UNCHANGED exception
               /\ events' = [events EXCEPT ![s] = Append(@, <<"feature_eng", None>>)]
    /\ UNCHANGED <<retry_count, nodes_MAX_RETRIES, output_exists, max_retries,
                   runs, execs, debugs, attempt, prevEnd, exit_code,
                   text, extracted, prompt>>

(***************************************************************************)
(* main.py: one run per process, with nodes.MAX_RETRIES as imported; the   *)
(* final state is printed and the interpreter ends.                        *)
(***************************************************************************)
main_start(s) ==
    /\ pc[s] = "idle"
    /\ runs[s] = 0
    /\ build_graph
    /\ state' = [state EXCEPT ![s] = InitialState]
    /\ pc' = [pc EXCEPT ![s] = "inspect"]
    /\ runs' = [runs EXCEPT ![s] = @ + 1]
    /\ stdout' = [stdout EXCEPT ![s] = {<<"starting", <<RAW_CSV, OUTPUT_CSV>>>>}]
    /\ UNCHANGED <<nodes_MAX_RETRIES, output_exists, max_retries, exception,
                   execs, debugs, attempt, prevEnd, exit_code, text, extracted, events, prompt>>

\* the lines main.py prints once graph.invoke has returned final_state
main_report(final_state) ==
    { <<"pipeline_complete", <<>>>>,
      <<"cleaned_csv", final_state.cleaned_csv_path>>,
      <<"feature_plan", final_state.feature_engineering_plan>> }

\* the exit statuses of the interpreter: 0 at the end of the script, 1 for an
\* uncaught exception, the code's own choice for a SystemExit it raised
main_exit_codes(end, exc) ==
    IF end \in {"Done", "Failed"} THEN {0}
    ELSE IF exc[2] = "exec" THEN {0, 1}
    ELSE {1}

main_finish(s) ==
    /\ pc[s] \in Terminal
    /\ exit_code[s] = None
    /\ \E code \in main_exit_codes(pc[s], exception[s]) :
          exit_code' = [exit_code EXCEPT ![s] = Some(code)]
    /\ stdout' = [stdout EXCEPT ![s] =
                     IF pc[s] \in {"Done", "Failed"}
                     THEN @ \cup main_report(state[s])
                     ELSE @]
    /\ prevEnd' = [prevEnd EXCEPT ![s] = pc[s]]
    /\ pc' = [pc EXCEPT ![s] = "exited"]
    /\ UNCHANGED <<retry_count, nodes_MAX_RETRIES, output_exists, state,
                   max_retries, runs, exception, execs, debugs, attempt,
                   text, extracted, events, prompt>>

(***************************************************************************)
(* _extract_code on its own: on a text, and on the text wrapped in one     *)
(* fence and in two.                                                       *)
(***************************************************************************)
TextTokens == {"bt", "python", "nl", "sp", "to_csv"}

\* the pieces longer texts are put together from: a fence or one token
Chunks == {Fence} \cup {<<tok>> : tok \in TextTokens}

RECURSIVE Flatten(_)
Flatten(chunks) ==
    IF chunks = <<>> THEN <<>>
    ELSE Head(chunks) \o Flatten(Tail(chunks))

ChunkTexts == {Flatten(c) : c \in UNION {[1..n -> Chunks] : n \in 0..MaxChunks}}

Texts == UNION {[1..n -> TextTokens] : n \in 0..MaxTextLen}

\* the text holds no run of three backticks
NoFence(t) == \A i \in 1..Len(t) : ~FenceAt(t, i)

extract_bare ==
    /\ extracted.bare = None
    /\ extracted' = [extracted EXCEPT !.bare = Some(_extract_code(text))]
    /\ UNCHANGED <<retry_count, nodes_MAX_RETRIES, output_exists, pc, state,
                   max_retries, runs, exception, execs, debugs, attempt,
                   prevEnd, stdout, exit_code, text, events, prompt>>

extract_wrapped_once ==
    /\ extracted.once = None
    /\ extracted' = [extracted EXCEPT !.once = Some(_extract_code(Fenced(text)))]
    /\ UNCHANGED <<retry_count, nodes_MAX_RETRIES, output_exists, pc, state,
                   max_retries, runs, exception, execs, debugs, attempt,
                   prevEnd, stdout, exit_code, text, events, prompt>>

extract_wrapped_twice ==
    /\ extracted.twice = None
    /\ extracted' = [extracted EXCEPT
                        !.twice = Some(_extract_code(Fenced(Fenced(text))))]
    /\ UNCHANGED <<retry_count, nodes_MAX_RETRIES, output_exists, pc, state,
                   max_retries, runs, exception, execs, debugs, attempt,
                   prevEnd, stdout, exit_code, text, events, prompt>>

(***************************************************************************)
(* Specifications.  Spec: one session, its runs one after another.         *)
(* SpecConc: the sessions of one Streamlit process, their runs interleaved *)
(* node by node.                                                           *)
(***************************************************************************)
Step(s, oracle) ==
    \/ node_inspect(s)
    \/ node_plan(s, oracle.plan)
    \/ node_generate_code(s, oracle.code)
    \/ node_execute_code(s)
    \/ route(s)
    \/ node_debug(s, oracle.code)
    \/ node_feature_engineering(s)

Next ==
    \/ StartRun(1, MaxRuns)
    \/ Step(1, SeqOracle)

Spec == Init /\ [][Next]_vars

\* LangGraph runs the next node of a started run as long as there is one
FairSpec == Spec /\ WF_vars(Step(1, SeqOracle))

NextConc ==
    \E s \in Sessions :
        \/ StartRun(s, MaxConcRuns)
        \/ Step(s, ConcOracle)

SpecConc == Init /\ [][NextConc]_vars

\* main.py in a process of its own
NextMain ==
    \/ main_start(1)
    \/ Step(1, SeqOracle)
    \/ main_finish(1)

SpecMain == Init /\ [][NextMain]_vars

\* the extractor applied to every text of at most MaxTextLen tokens
InitExtract ==
    /\ retry_count = 0
    /\ nodes_MAX_RETRIES = MAX_RETRIES
    /\ output_exists = FALSE
    /\ pc = [s \in Sessions |-> "idle"]
    /\ state = [s \in Sessions |-> InitialState]
    /\ max_retries = [s \in Sessions |-> MAX_RETRIES]
    /\ runs = [s \in Sessions |-> 0]
    /\ exception = [s \in Sessions |-> NoException]
    /\ execs = [s \in Sessions |-> 0]
    /\ debugs = [s \in Sessions |-> 0]
    /\ attempt = [s \in Sessions |-> NoAttempt]
    /\ prevEnd = [s \in Sessions |-> "none"]
    /\ stdout = [s \in Sessions |-> {}]
    /\ exit_code = [s \in Sessions |-> None]
    /\ text \in Texts
    /\ extracted = NoExtraction
    /\ events = [s \in Sessions |-> <<>>]
    /\ prompt = [s \in Sessions |-> NoPrompt]

\* _extract_code applied to what _extract_code returned for text
extract_again ==
    /\ extracted.bare # None
    /\ extracted.again = None
    /\ extracted' = [extracted EXCEPT !.again = Some(_extract_code(extracted.bare[1]))]
    /\ UNCHANGED <<retry_count, nodes_MAX_RETRIES, output_exists, pc, state,
                   max_retries, runs, exception, execs, debugs, attempt,
                   prevEnd, stdout, exit_code, text, events, prompt>>

NextExtract ==
    \/ extract_bare
    \/ extract_wrapped_once
    \/ extract_wrapped_twice

SpecExtract == InitExtract /\ [][NextExtract]_vars

\* the extractor applied to every text of at most MaxChunks fences or
\* tokens, and then to its own result
InitReextract ==
    /\ retry_count = 0
    /\ nodes_MAX_RETRIES = MAX_RETRIES
    /\ output_exists = FALSE
    /\ pc = [s \in Sessions |-> "idle"]
    /\ state = [s \in Sessions |-> InitialState]
    /\ max_retries = [s \in Sessions |-> MAX_RETRIES]
    /\ runs = [s \in Sessions |-> 0]
    /\ exception = [s \in Sessions |-> NoException]
    /\ execs = [s \in Sessions |-> 0]
    /\ debugs = [s \in Sessions |-> 0]
    /\ attempt = [s \in Sessions |-> NoAttempt]
    /\ prevEnd = [s \in Sessions |-> "none"]
    /\ stdout = [s \in Sessions |-> {}]
    /\ exit_code = [s \in Sessions |-> None]
    /\ text \in ChunkTexts
    /\ extracted = NoExtraction
    /\ events = [s \in Sessions |-> <<>>]
    /\ prompt = [s \in Sessions |-> NoPrompt]

NextReextract ==
    \/ extract_bare
    \/ extract_again

SpecReextract == InitReextract /\ [][NextReextract]_vars

(***************************************************************************)
(* The claims.                                                             *)
(***************************************************************************)
\* the last execute_code of session s returned (no exception left it)
Returned(s) ==
    /\ execs[s] >= 1
    /\ ~(pc[s] = "Aborted" /\ exception[s][1] = "execute_code")

\* the code names something that is not one of the three injected bindings
UsesOutside(code) ==
    \E k \in 1..Len(code) : ~(Needs(code[k]) \subseteq Namespace)

C2_ConfiguredBound ==
    \A s \in Sessions :
        /\ execs[s] <= max_retries[s] + 1
        /\ debugs[s] <= max_retries[s]

\* C3: the retry counter is zero when a run starts, whatever the previous
\* run of the process did.
C3_ZeroAtStart ==
    \A s \in Sessions : pc[s] = "inspect" => retry_count = 0

C3_Witness ==
    /\ pc[1] = "inspect"
    /\ runs[1] >= 2
    /\ prevEnd[1] = "Failed"

\* C4: a step of one run (its start, its repair) never changes the retry
\* counter that another run in progress reads.
C4_Independent ==
    [][\A s \in Sessions :
          (pc[s] \in Running /\ pc'[s] = pc[s] /\ runs'[s] = runs[s])
              => retry_count' = retry_count]_vars

C6_Failed ==
    /\ [](\A s \in Sessions :
            pc[s] = "Failed" =>
                /\ retry_count = graph_MAX_RETRIES
                /\ state[s].cleaned_csv_path = None
                /\ state[s].error # None
                /\ state[s].error = attempt[s].diag
                /\ attempt[s].code = state[s].generated_code)
    /\ [][\A s \in Sessions :
            pc[s] = "Failed" =>
                \/ pc'[s] = "Failed" /\ execs'[s] = execs[s] /\ debugs'[s] = debugs[s]
                \/ pc'[s] = "inspect" /\ runs'[s] = runs[s] + 1]_vars

C6_Witness ==
    /\ pc[1] = "Failed"
    /\ debugs[1] = graph_MAX_RETRIES
    /\ state[1].error = Some(Traceback("NameError", "undef"))

\* C7: a run that ended in Done has cleaned_csv_path equal to the
\* destination path and no error.
C7_Done ==
    \A s \in Sessions :
        pc[s] = "Done" =>
            /\ state[s].cleaned_csv_path = Some(state[s].output_csv_path)
            /\ state[s].error = None

C7_Witness ==
    /\ pc[1] = "Done"
    /\ debugs[1] >= 1

\* C8 (as stated): after a Success the run goes to feature suggestion and from
\* there to Done, whether or not the destination file was written (the oracle
\* answering).
C8_Original ==
    [][\A s \in Sessions :
          /\ (pc[s] = "route" /\ state[s].error = None)
                 => pc'[s] \in {"route", "feature_eng"}
          /\ pc[s] = "feature_eng"
                 => \/ pc'[s] \in {"feature_eng", "Done"}
                    \/ exception'[s][2] = "call_llm"]_vars

\* C8 (amended): after a Success the run goes to feature suggestion; from
\* there it ends in Done when the stage returns, which takes a readable
\* cleaned file, and is aborted by the stage's exception otherwise; it never
\* goes to repair or to Failed.
C8_SuccessThenDoneOrAbort ==
    [][\A s \in Sessions :
          /\ (pc[s] = "route" /\ state[s].error = None)
                 => pc'[s] \in {"route", "feature_eng"}
          /\ pc[s] = "feature_eng"
                 => \/ pc'[s] = "feature_eng"
                    \/ pc'[s] = "Done" /\ output_exists
                    \/ /\ pc'[s] = "Aborted"
                       /\ exception'[s][1] = "feature_eng"
                       /\ output_exists \/ exception'[s][2] = "read_csv"
          /\ (pc[s] = "feature_eng" /\ ~output_exists)
                 => pc'[s] \in {"feature_eng", "Aborted"}]_vars

C8_Witness ==
    /\ pc[1] = "Aborted"
    /\ exception[1] = <<"feature_eng", "read_csv">>
    /\ attempt[1].result = "Success"
    /\ ~output_exists

\* C9: no exception raised by the generated code leaves execute_code; each
\* becomes a Failure that carries the trace.
C9_NoPropagation ==
    \A s \in Sessions :
        (execs[s] >= 1 /\ attempt[s].result = "Raised") =>
            /\ ~(pc[s] = "Aborted" /\ exception[s][1] = "execute_code")
            /\ state[s].error = attempt[s].diag

\* C10: an attempt whose code uses a capability other than the three
\* injected bindings ends in Failure.
C10_Isolation ==
    \A s \in Sessions :
        (pc[s] = "route" /\ UsesOutside(attempt[s].code)) => state[s].error # None

\* C11: in every state of a run the retry counter is between 0 and the
\* maximum number of repair attempts the operator configured.
C11_WithinConfigured ==
    \A s \in Sessions :
        pc[s] \in Running \cup Terminal =>
            /\ retry_count >= 0
            /\ retry_count <= max_retries[s]

\* C12: main.py exits with code 0 and prints the artifact path and the
\* feature plan when the run ended in Done; it exits with a non-zero code and
\* prints the diagnostic when the run ended in Failed.
C12_ExitCodes ==
    \A s \in Sessions :
        pc[s] = "exited" =>
            /\ prevEnd[s] = "Done" =>
                  /\ exit_code[s] = Some(0)
                  /\ <<"cleaned_csv", Some(OUTPUT_CSV)>> \in stdout[s]
                  /\ <<"feature_plan", state[s].feature_engineering_plan>> \in stdout[s]
            /\ prevEnd[s] = "Failed" =>
                  /\ exit_code[s] # Some(0)
                  /\ <<"execution_error", state[s].error[1]>> \in stdout[s]

\* C13: for a text without fences, _extract_code of the text wrapped in one
\* fence and of the text wrapped in two fences both equal _extract_code of
\* the bare text.
C13_WrapIdempotent ==
    (/\ NoFence(text)
     /\ extracted.bare # None
     /\ extracted.once # None
     /\ extracted.twice # None) =>
        /\ extracted.once = extracted.bare
        /\ extracted.twice = extracted.bare

\* the stages that call the oracle
OracleStages == {"plan", "generate_code", "debug", "feature_eng"}

\* C14: when call_llm raises in plan, generate, repair or feature suggestion,
\* the stage neither catches nor retries: the run is aborted at once with the
\* pipeline state as it was, no further stage runs, and it is not sent to repair.
C14_OracleErrorAborts ==
    [][\A s \in Sessions :
          /\ (exception'[s] # exception[s] /\ exception'[s][2] = "call_llm") =>
                /\ pc[s] \in OracleStages
                /\ exception'[s][1] = pc[s]
                /\ pc'[s] = "Aborted"
                /\ state'[s] = state[s]
                /\ execs'[s] = execs[s]
          /\ (pc[s] = "Aborted" /\ exception[s][2] = "call_llm") =>
                \/ /\ pc'[s] = "Aborted"
                   /\ exception'[s] = exception[s]
                   /\ state'[s] = state[s]
                   /\ execs'[s] = execs[s]
                   /\ debugs'[s] = debugs[s]
                \/ /\ pc'[s] = "inspect"
                   /\ runs'[s] = runs[s] + 1]_vars

C14_Witness ==
    /\ pc[1] = "Aborted"
    /\ exception[1] = <<"debug", "call_llm">>
    /\ debugs[1] = 1
    /\ execs[1] = 1

\* C15: with a configured maximum N, a run in which every attempt fails ends
\* in Failed after exactly N + 1 execute and N repair invocations, with the
\* diagnostic of the last attempt.
C15_ExactExhaustion ==
    \A s \in Sessions :
        pc[s] = "Failed" =>
            /\ execs[s] = max_retries[s] + 1
            /\ debugs[s] = max_retries[s]
            /\ state[s].error = attempt[s].diag

\* C16: after a failed attempt with the counter strictly below the configured
\* maximum the run goes to repair, repair adds exactly one to the counter, and
\* the next execute runs the code repair returned; a run whose first attempt
\* fails and whose second succeeds makes two execute and one repair invocation.
C16_RepairCycle ==
    [][\A s \in Sessions :
          /\ (/\ pc[s] = "route"
              /\ state[s].error # None
              /\ retry_count < max_retries[s]
              /\ pc'[s] # pc[s]) => pc'[s] = "debug"
          /\ (pc[s] = "debug" /\ pc'[s] # pc[s]) =>
                /\ retry_count' = retry_count + 1
                /\ debugs'[s] = debugs[s] + 1
          /\ (pc[s] = "execute_code" /\ pc'[s] # pc[s]) =>
                attempt'[s].code = state[s].generated_code
          /\ (/\ pc[s] = "route"
              /\ state[s].error = None
              /\ execs[s] = 2
              /\ pc'[s] # pc[s]) => debugs[s] = 1]_vars

\* C17: within one run inspect, plan and generate_code are each entered once
\* and in that order before the first execute; once an attempt was made only
\* execute, repair, feature suggestion and the terminal states are entered.
C17_StageOrder ==
    [][\A s \in Sessions :
          pc'[s] # pc[s] =>
              /\ pc'[s] = "inspect" => runs'[s] = runs[s] + 1
              /\ pc'[s] = "plan" => pc[s] = "inspect"
              /\ pc'[s] = "generate_code" => pc[s] = "plan"
              /\ pc'[s] = "execute_code" =>
                    \/ pc[s] = "generate_code" /\ execs[s] = 0
                    \/ pc[s] = "debug" /\ execs[s] >= 1
              /\ (execs[s] >= 1 /\ runs'[s] = runs[s]) =>
                    pc'[s] \in {"execute_code", "route", "debug", "feature_eng"}
                                 \cup Terminal]_vars

C17_Witness ==
    /\ pc[1] = "execute_code"
    /\ execs[1] = 2
    /\ debugs[1] = 2
    /\ state[1].cleaning_plan = <<"plan_b">>

\* C18: once generate_code has run, generated_code is non-empty in every
\* later state of the run, whatever text the oracle returned.
C18_CodeNonEmpty ==
    \A s \in Sessions :
        pc[s] \in {"execute_code", "route", "debug", "feature_eng", "Done", "Failed"} =>
            state[s].generated_code # <<>>

\* C19: repair is invoked only in states whose error field holds the
\* diagnostic of a failed attempt: never before an attempt failed and never
\* after an attempt that succeeded.
C19_RepairOnlyOnError ==
    /\ [](\A s \in Sessions :
            pc[s] = "debug" =>
                /\ execs[s] >= 1
                /\ attempt[s].result = "Raised"
                /\ state[s].error # None
                /\ state[s].error = attempt[s].diag)
    /\ [][\A s \in Sessions :
            debugs'[s] > debugs[s] =>
                /\ pc[s] = "debug"
                /\ state[s].error # None
                /\ attempt[s].result = "Raised"]_vars

C19_Witness ==
    /\ pc[1] = "execute_code"
    /\ debugs[1] = 1
    /\ state[1].error = Some(Traceback("NameError", "undef"))

\* the fields of the pipeline state other than generated_code
NotCode == DOMAIN InitialState \ {"generated_code"}

\* C20: during a run the two paths never change; data_profile is written
\* only by inspect and cleaning_plan only by plan; execute, repair and
\* feature suggestion leave paths, profile and plan as they were, and repair
\* changes no field other than generated_code.
C20_WriteOnce ==
    [][\A s \in Sessions :
          runs'[s] = runs[s] =>
              /\ state'[s].raw_csv_path = state[s].raw_csv_path
              /\ state'[s].output_csv_path = state[s].output_csv_path
              /\ state'[s].data_profile # state[s].data_profile => pc[s] = "inspect"
              /\ state'[s].cleaning_plan # state[s].cleaning_plan => pc[s] = "plan"
              /\ pc[s] \in {"execute_code", "debug", "feature_eng"} =>
                    /\ state'[s].data_profile = state[s].data_profile
                    /\ state'[s].cleaning_plan = state[s].cleaning_plan
              /\ pc[s] = "debug" =>
                    \A f \in NotCode : state'[s][f] = state[s][f]]_vars

C20_Witness ==
    /\ pc[1] = "Done"
    /\ debugs[1] >= 1
    /\ state[1].raw_csv_path = RAW_CSV
    /\ state[1].output_csv_path = OUTPUT_CSV
    /\ state[1].data_profile = "profile"
    /\ state[1].cleaning_plan = <<"plan_a">>
    /\ state[1].generated_code # <<>>
    /\ execs[1] = 2

\* the stages and the router that are not the repair stage
OtherStages == {"inspect", "plan", "generate_code", "execute_code", "route",
                "feature_eng"}

\* C21: the retry counter is changed only by the repair stage, which adds
\* exactly one per invocation, and by the reset at run start, which sets it
\* to zero; the other stages and the router leave it alone, so it never
\* decreases within a run.
C21_CounterFrame ==
    [][/\ retry_count' # retry_count =>
             \E s \in Sessions :
                 \/ pc[s] = "debug" /\ debugs'[s] = debugs[s] + 1
                 \/ runs'[s] = runs[s] + 1
       /\ \A s \in Sessions :
             /\ debugs'[s] = debugs[s] + 1 => retry_count' = retry_count + 1
             /\ runs'[s] = runs[s] + 1 => retry_count' = 0
             /\ (pc[s] \in OtherStages /\ pc'[s] # pc[s]) =>
                   retry_count' = retry_count
       /\ (\A s \in Sessions : runs'[s] = runs[s]) =>
             retry_count' >= retry_count]_vars

C21_Witness ==
    /\ runs[1] = 2
    /\ prevEnd[1] = "Failed"
    /\ pc[1] = "execute_code"
    /\ retry_count = 1
    /\ debugs[1] = 1

\* the update the graph yielded last in the run of s
LastEvent(s) == events[s][Len(events[s])]

\* C22: every failed attempt is logged by execute_code and yielded as the
\* execute_code update before the repair for that failure starts; no repair
\* begins for a failure that was not reported.
C22_FailureReported ==
    /\ [](\A s \in Sessions :
            pc[s] = "debug" =>
                /\ attempt[s].result = "Raised"
                /\ <<"execution_error", attempt[s].diag[1]>> \in stdout[s]
                /\ events[s] # <<>>
                /\ LastEvent(s) = <<"execute_code", attempt[s].diag>>)
    /\ [][\A s \in Sessions :
            (execs'[s] = execs[s] + 1 /\ pc'[s] = "route"
                                      /\ attempt'[s].result = "Raised") =>
                /\ <<"execution_error", attempt'[s].diag[1]>> \in stdout'[s]
                /\ events'[s] = Append(events[s], <<"execute_code", attempt'[s].diag>>)
                /\ debugs'[s] = debugs[s]]_vars

C22_Witness ==
    /\ pc[1] = "debug"
    /\ execs[1] = 2
    /\ debugs[1] = 1
    /\ Len(events[1]) = 6
    /\ LastEvent(1) = <<"execute_code", Some(Traceback("ValueError", "raise"))>>
    /\ <<"execution_error", Traceback("ValueError", "raise")>> \in stdout[1]

\* C23: _extract_code returns a text for every input text, the text it
\* returns holds no fence, and _extract_code of that text is the same text.
C23_TotalIdempotent ==
    /\ extracted.bare # None =>
          /\ extracted.bare[1] \in Seq(TextTokens)
          /\ NoFence(extracted.bare[1])
    /\ extracted.again # None => extracted.again = extracted.bare

C23_Witness ==
    /\ text = Fence \o <<"nl", "bt", "to_csv">> \o Fence \o <<"bt">>
    /\ extracted.bare = Some(<<"bt", "to_csv">>)
    /\ extracted.again = Some(<<"bt", "to_csv">>)

\* C24: at every repair invocation the code and the traceback put into the
\* prompt belong together: the traceback is what the execution just before
\* produced for exactly that code, never one of an older attempt.
C24_PromptMatches ==
    [][\A s \in Sessions :
          debugs'[s] = debugs[s] + 1 =>
              /\ attempt[s].result = "Raised"
              /\ prompt'[s].code = attempt[s].code
              /\ prompt'[s].error = attempt[s].diag
              /\ execs[s] = debugs[s] + 1]_vars

C24_Witness ==
    /\ debugs[1] = 2
    /\ execs[1] = 2
    /\ pc[1] = "execute_code"
    /\ prompt[1].code = <<"undef", "nl", "to_csv">>
    /\ prompt[1].error = Some(Traceback("NameError", "undef"))
    /\ <<"execution_error", Traceback("ValueError", "raise")>> \in stdout[1]

\* C25: debug_code increments the counter before it calls the oracle: when
\* that call raises, the counter has gone up by one while generated_code,
\* error and cleaned_csv_path are as they were before the repair started.
C25_CountedBeforeCall ==
    [][\A s \in Sessions :
          (pc[s] = "debug" /\ pc'[s] = "Aborted") =>
              /\ exception'[s] = <<"debug", "call_llm">>
              /\ retry_count' = retry_count + 1
              /\ <<"debug_attempt", <<retry_count + 1>>>> \in stdout'[s]
              /\ state'[s].generated_code = state[s].generated_code
              /\ state'[s].error = state[s].error
              /\ state'[s].cleaned_csv_path = state[s].cleaned_csv_path]_vars

C25_Witness ==
    /\ pc[1] = "Aborted"
    /\ exception[1] = <<"debug", "call_llm">>
    /\ debugs[1] = 2
    /\ retry_count = 2
    /\ state[1].error # None

=============================================================================
